---- MODULE Spec2Model ----
(***************************************************************************)
(* Model of sparklines.py: scale_values (the scaler), _render_column,      *)
(* batch, transpose_array, list_join and the entry point sparklines().     *)
(*                                                                         *)
(* Python values are modelled as follows.                                  *)
(*   - None or a number x: the sequence <<>> or <<x>>.                     *)
(*   - a float: a record [n, d, exact], the rational n/d in lowest terms   *)
(*     with d > 0, and whether the IEEE double held by the program is      *)
(*     exactly that rational. An operation on doubles is exact when its    *)
(*     operands are exact and its mathematical result is a dyadic          *)
(*     rational (all magnitudes of the model are far below 2^53);          *)
(*     otherwise the double is the rational up to a rounding error of      *)
(*     unknown sign, which round() resolves either way on an exact tie.    *)
(*   - a str: the sequence of its characters, each a glyph of blocks.      *)
(*   - a raised exception: pc = "raised" and exc the exception's name.     *)
(* sparklines() is modelled for calls without emphasis rules (emph=None,   *)
(* its default), where line 144 sets color to None for every column.       *)
(***************************************************************************)
EXTENDS Integers, Sequences, FiniteSets, TLC

VARIABLES
    numbers,          \* argument: the samples, each <<>> (None) or <<x>>
    num_lines,        \* argument
    minimum,          \* argument: <<>> (None) or <<lo>>
    maximum,          \* argument: <<>> (None) or <<hi>>
    wrap,             \* argument: <<>> (None) or <<w>>
    py,               \* major version of the interpreter running the module
    pc,               \* "call", "batches", "done" or "raised"
    exc,              \* name of the exception raised, "" if none
    warned,           \* _check_negatives emitted its warning
    display_values,   \* local of sparklines(): result of scale_values
    todo,             \* batches the for loop of sparklines() has not rendered yet
    subgraphs_lines,  \* local of sparklines(): the rendered batches
    lines             \* the list sparklines() returns

vars == <<numbers, num_lines, minimum, maximum, wrap, py,
          pc, exc, warned, display_values, todo, subgraphs_lines, lines>>

\* ---------------------------------------------------------------- bounds
MaxLen == 2
MaxVal == 2
MaxLines == 3
MaxWrap == 3

\* ------------------------------------------------------------- Python data
None == <<>>
Some(x) == <<x>>
IsNone(o) == o = <<>>
Val(o) == o[1]

Min2(a, b) == IF a <= b THEN a ELSE b
Max2(a, b) == IF a >= b THEN a ELSE b
Abs(a) == IF a < 0 THEN 0 - a ELSE a

RECURSIVE GCD(_, _)
GCD(a, b) == IF b = 0 THEN a ELSE GCD(b, a % b)

RECURSIVE IsPow2(_)
IsPow2(d) == IF d = 1 THEN TRUE ELSE IF d % 2 = 1 THEN FALSE ELSE IsPow2(d \div 2)

\* ------------------------------------------------------------------ floats
Mk(n, d, ex) ==
    LET s == IF d < 0 THEN 0 - 1 ELSE 1
        g == GCD(Abs(n), Abs(d))
        nn == (s * n) \div g
        dd == (s * d) \div g
    IN  [n |-> nn, d |-> dd, exact |-> ex /\ IsPow2(dd)]

FromInt(i) == [n |-> i, d |-> 1, exact |-> TRUE]
FAdd(a, b) == Mk(a.n * b.d + b.n * a.d, a.d * b.d, a.exact /\ b.exact)
FSub(a, b) == Mk(a.n * b.d - b.n * a.d, a.d * b.d, a.exact /\ b.exact)
FMul(a, b) == Mk(a.n * b.n, a.d * b.d, a.exact /\ b.exact)
FDiv(a, b) == Mk(a.n * b.d, a.d * b.n, a.exact /\ b.exact)
FLess(a, b) == a.n * b.d < b.n * a.d
FIsZero(a) == a.n = 0

Floor(v) == v.n \div v.d
IsTie(v) == 2 * (v.n - Floor(v) * v.d) = v.d

\* round(): half to even on the double. goUp decides an inexact tie.
Round(v, goUp) ==
    LET f == Floor(v)
        r2 == 2 * (v.n - f * v.d)
    IN  IF r2 < v.d THEN f
        ELSE IF r2 > v.d THEN f + 1
        ELSE IF v.exact THEN (IF f % 2 = 0 THEN f ELSE f + 1)
        ELSE IF goUp THEN f + 1 ELSE f

\* ------------------------------------------------------------ module data
\* line 35: the space and the eight block elements U+2581 (lower one eighth
\* block) to U+2588 (full block), each named by its code point
blocks == <<" ", "U+2581", "U+2582", "U+2583", "U+2584", "U+2585", "U+2586",
            "U+2587", "U+2588">>

\* blocks[block_code] with Python's 0-based index
Block(block_code) == blocks[block_code + 1]

\* _rescale(x1, y1, x2, y2, x) on doubles; the caller sees ZeroDivisionError
\* when x2 - x1 is zero.
Rescale(x1, y1, x2, y2, x) ==
    FAdd(FMul(FDiv(FSub(y2, y1), FSub(x2, x1)), x),
         FDiv(FSub(FSub(FMul(x2, y1), x1), y2), FSub(x2, x1)))

RescaleRaises(x1, x2) == FIsZero(FSub(x2, x1))

\* _check_negatives: filter(None, numbers) drops None and 0, then x < 0
CheckNegatives(nums) == \E i \in 1..Len(nums) : ~IsNone(nums[i]) /\ Val(nums[i]) < 0

\* --------------------------------------------------------------- scale_values
Present(nums) == SelectSeq(nums, LAMBDA n : ~IsNone(n))

RECURSIVE SeqMin(_)
SeqMin(s) == IF Len(s) = 1 THEN Val(s[1]) ELSE Min2(Val(s[1]), SeqMin(Tail(s)))

RECURSIVE SeqMax(_)
SeqMax(s) == IF Len(s) = 1 THEN Val(s[1]) ELSE Max2(Val(s[1]), SeqMax(Tail(s)))

\* lines 82-83
EffMin(nums, mn) == IF IsNone(mn) THEN SeqMin(Present(nums)) ELSE Val(mn)
EffMax(nums, mx) == IF IsNone(mx) THEN SeqMax(Present(nums)) ELSE Val(mx)

\* line 87 for one entry. Python 2 orders None below every number, so
\* min(None, max_) is None and max(None, min_) is min_; Python 3 raises.
Clamp(n, min_, max_) ==
    IF IsNone(n) THEN Some(min_) ELSE Some(Max2(Min2(Val(n), max_), min_))

Clamped(nums, min_, max_) == [i \in 1..Len(nums) |-> Clamp(nums[i], min_, max_)]

\* lines 94-98 for one entry
num_blocks == Len(blocks) - 1

Stage1(x, min_, max_) ==
    FAdd(FMul(FDiv(FromInt(num_blocks - 1), FromInt(max_ - min_)), FromInt(x)),
         FDiv(FromInt(max_ - min_ * num_blocks), FromInt(max_ - min_)))

RECURSIVE FMin(_)
FMin(s) == IF Len(s) = 1 THEN s[1]
           ELSE LET r == FMin(Tail(s)) IN IF FLess(r, s[1]) THEN r ELSE s[1]

\* line 101
LowestStage1(cl, min_, max_) ==
    FMin([i \in 1..Len(cl) |-> Stage1(Val(cl[i]), min_, max_)])

\* lines 94-106 for one entry: the double handed to round()
Height(x, nl, min_, max_, m) ==
    IF nl > 1
    THEN Rescale(m, m, FromInt(max_), FromInt(nl * max_), Stage1(x, min_, max_))
    ELSE Stage1(x, min_, max_)

\* line 107 for one entry: round(v) or 1
Rounded(v, goUp) == LET r == Round(v, goUp) IN IF r = 0 THEN 1 ELSE r

\* mutant of line 90: the mid level of one row, whatever num_lines is
DegenerateOneRow(cl, nl) == [i \in 1..Len(cl) |-> Some(4)]

\* line 90
Degenerate(cl, nl) == [i \in 1..Len(cl) |-> Some(4 * nl)]

Raise(name) == [exc |-> name, values |-> <<>>]
Return(vals) == [exc |-> "", values |-> vals]

\* scale_values(numbers, num_lines, minimum, maximum) under interpreter pyv;
\* up is the set of clamped samples whose inexact tie the double resolves upwards.
ScaleValues(nums, nl, mn, mx, pyv, up) ==
    IF (IsNone(mn) \/ IsNone(mx)) /\ Present(nums) = <<>> THEN Raise("ValueError")
    ELSE LET min_ == EffMin(nums, mn)
             max_ == EffMax(nums, mx)
             dv == max_ - min_
             cl == Clamped(nums, min_, max_)
         IN  IF pyv = 3 /\ Present(nums) # nums THEN Raise("TypeError")
             ELSE IF dv = 0 THEN Return(Degenerate(cl, nl))
             ELSE IF dv < 0 THEN Raise("UnboundLocalError")
             ELSE LET m == LowestStage1(cl, min_, max_)
                  IN  IF nl > 1 /\ RescaleRaises(m, FromInt(max_))
                      THEN Raise("ZeroDivisionError")
                      ELSE Return([i \in 1..Len(cl) |->
                               IF IsNone(cl[i]) THEN None
                               ELSE Some(Rounded(Height(Val(cl[i]), nl, min_, max_, m),
                                                 Val(cl[i]) \in up))])

\* the clamped samples whose height is a tie that the double may miss
InexactTies(nums, nl, mn, mx) ==
    IF (IsNone(mn) \/ IsNone(mx)) /\ Present(nums) = <<>> THEN {}
    ELSE LET min_ == EffMin(nums, mn)
             max_ == EffMax(nums, mx)
             cl == Clamped(nums, min_, max_)
             m == LowestStage1(cl, min_, max_)
         IN  IF max_ - min_ <= 0 \/ (nl > 1 /\ RescaleRaises(m, FromInt(max_))) THEN {}
             ELSE {x \in {Val(cl[i]) : i \in 1..Len(cl)} :
                     LET v == Height(x, nl, min_, max_, m)
                     IN  IsTie(v) /\ ~v.exact}

\* ---------------------------------------------------------------- rendering
\* mutant of line 159: a row spans 9 levels instead of 8
RenderColumnStride9(value, nl) ==
    [i \in 1..nl |-> Block(Min2(Max2(0, value - 9 * (i - 1)), 8))]

\* _render_column(value, num_lines) for a number: pixels, bottom row first
RenderColumn(value, nl) ==
    [i \in 1..nl |-> Block(Min2(Max2(0, value - 8 * (i - 1)), 8))]

\* termcolor.colored(c, color): the character between two escape sequences
Colored(c, color) == "\\033[" \o color \o "m" \o c \o "\\033[0m"

\* _color_string(color, string) on the one-character strings it is given
ColorString(color, string) == IF IsNone(color) THEN string ELSE Colored(string, Val(color))

\* lines 143-145 for one pair: emph is None, so color is None on line 144
Column(pair, nl) ==
    LET column == RenderColumn(Val(pair[2]), nl)
        color == None
    IN  [i \in 1..Len(column) |-> ColorString(color, column[i])]

\* the str '' and ''.join(row) of a row of one-character strings
EmptyStr == <<>>
JoinChars(row) == [k \in 1..Len(row) |-> row[k]]

Reversed(s) == [i \in 1..Len(s) |-> s[Len(s) + 1 - i]]

\* transpose_array(array), for an array that passes its check
TransposeRaises(array) == Cardinality({Len(array[c]) : c \in 1..Len(array)}) # 1

\* mutant of line 197: the columns reversed, not turned into rows
TransposeForgotten(array) == Reversed(array)

TransposeArray(array) ==
    Reversed([r \in 1..Len(array[1]) |-> [c \in 1..Len(array) |-> array[c][r]]])

\* lines 148-149
SubgraphLines(columns) ==
    LET subgraph_rows == TransposeArray(columns)
    IN  [r \in 1..Len(subgraph_rows) |-> JoinChars(subgraph_rows[r])]

\* mutant of lines 173-178: the separator follows the last list too
RECURSIVE ListJoinTrailing(_, _)
ListJoinTrailing(separator, lists) ==
    IF lists = <<>> THEN <<>>
    ELSE lists[1] \o <<separator>> \o ListJoinTrailing(separator, Tail(lists))

\* list_join(separator, lists)
RECURSIVE ListJoin(_, _)
ListJoin(separator, lists) ==
    IF lists = <<>> THEN <<>>
    ELSE IF Len(lists) = 1 THEN lists[1]
    ELSE lists[1] \o <<separator>> \o ListJoin(separator, Tail(lists))

\* ------------------------------------------------------------------ batch
MISSING == <<"MISSING">>

\* padded_items[i::batch_size], i counted from 0
Stride(padded, i, batch_size) ==
    [k \in 1..((Len(padded) - i + batch_size - 1) \div batch_size) |->
        padded[i + (k - 1) * batch_size + 1]]

\* zip(*slices): as many groups as the shortest slice has items
Zip(slices) ==
    LET n == CHOOSE l \in {Len(slices[j]) : j \in 1..Len(slices)} :
                 \A j \in 1..Len(slices) : l <= Len(slices[j])
    IN  [g \in 1..n |-> [j \in 1..Len(slices) |-> slices[j][g]]]

Batch(batch_size, items) ==
    IF IsNone(batch_size) THEN <<items>>
    ELSE LET bs == Val(batch_size)
             padded_items == items \o [k \in 1..(bs - 1) |-> MISSING]
             groups == Zip([i \in 1..bs |-> Stride(padded_items, i - 1, bs)])
         IN  [g \in 1..Len(groups) |-> SelectSeq(groups[g], LAMBDA item : item # MISSING)]

\* zip(numbers, display_values)
Pairs(nums, values) == [i \in 1..Min2(Len(nums), Len(values)) |-> <<nums[i], values[i]>>]

\* ------------------------------------------------------------------ inputs
\* the docstring's example (lines 121-127), a run whose middle sample is the
\* exact midpoint of a range that is no power of two, and a run with a
\* negative sample (the case _check_negatives warns about)
PiExample == <<Some(3), Some(1), Some(4), Some(1), Some(5), Some(9), Some(2), Some(6)>>
MidExample == <<Some(2), Some(5), Some(8)>>
NegExample == <<Some(0 - 1), Some(2), Some(0)>>

Samples == {None} \cup {Some(x) : x \in 0..MaxVal}
Bounds == {None} \cup {Some(x) : x \in 0..MaxVal}
Wraps == {None} \cup {Some(w) : w \in 1..MaxWrap}

Inputs == UNION {[1..n -> Samples] : n \in 0..MaxLen} \cup {PiExample, MidExample, NegExample}

Init ==
    /\ numbers \in Inputs
    /\ num_lines \in 0..MaxLines
    /\ minimum \in Bounds
    /\ maximum \in Bounds
    /\ wrap \in Wraps
    /\ py \in {2, 3}
    /\ pc = "call"
    /\ exc = ""
    /\ warned = FALSE
    /\ display_values = <<>>
    /\ todo = <<>>
    /\ subgraphs_lines = <<>>
    /\ lines = <<>>

args == <<numbers, num_lines, minimum, maximum, wrap, py>>

\* -------------------------------------------------------------- sparklines()
\* lines 130-140: the assertion, the empty input, the warning, scale_values
\* and the batches the loop will go through
Call ==
    /\ pc = "call"
    /\ IF num_lines <= 0
       THEN /\ pc' = "raised" /\ exc' = "AssertionError"
            /\ UNCHANGED <<warned, display_values, todo, lines>>
       ELSE IF Len(numbers) = 0
       THEN /\ pc' = "done" /\ lines' = <<EmptyStr>>
            /\ UNCHANGED <<exc, warned, display_values, todo>>
       ELSE \E up \in SUBSET InexactTies(numbers, num_lines, minimum, maximum) :
              LET r == ScaleValues(numbers, num_lines, minimum, maximum, py, up)
              IN  /\ warned' = CheckNegatives(numbers)
                  /\ IF r.exc # ""
                     THEN /\ pc' = "raised" /\ exc' = r.exc
                          /\ UNCHANGED <<display_values, todo, lines>>
                     ELSE /\ pc' = "batches"
                          /\ display_values' = r.values
                          /\ todo' = Batch(wrap, Pairs(numbers, r.values))
                          /\ UNCHANGED <<exc, lines>>
    /\ UNCHANGED <<args, subgraphs_lines>>

\* lines 140-150: one turn of the loop over the batches
RenderSubgraph ==
    /\ pc = "batches"
    /\ todo # <<>>
    /\ LET subgraph_pairs == Head(todo)
       IN  IF \E k \in 1..Len(subgraph_pairs) : IsNone(subgraph_pairs[k][2])
           THEN /\ pc' = "raised" /\ exc' = "TypeError"
                /\ UNCHANGED <<todo, subgraphs_lines>>
           ELSE LET columns == [k \in 1..Len(subgraph_pairs) |->
                                   Column(subgraph_pairs[k], num_lines)]
                IN  IF TransposeRaises(columns)
                    THEN /\ pc' = "raised" /\ exc' = "Exception"
                         /\ UNCHANGED <<todo, subgraphs_lines>>
                    ELSE /\ subgraphs_lines' = Append(subgraphs_lines, SubgraphLines(columns))
                         /\ todo' = Tail(todo)
                         /\ UNCHANGED <<pc, exc>>
    /\ UNCHANGED <<args, warned, display_values, lines>>

\* lines 152-153
ReturnLines ==
    /\ pc = "batches"
    /\ todo = <<>>
    /\ lines' = ListJoin(EmptyStr, subgraphs_lines)
    /\ pc' = "done"
    /\ UNCHANGED <<args, exc, warned, display_values, todo, subgraphs_lines>>

Next == Call \/ RenderSubgraph \/ ReturnLines

Spec == Init /\ [][Next]_vars

\* =================================================================== claims
HasNone == \E i \in 1..Len(numbers) : IsNone(numbers[i])
HasPresent == \E i \in 1..Len(numbers) : ~IsNone(numbers[i])
PresentIdx == {i \in 1..Len(numbers) : ~IsNone(numbers[i])}

\* scale_values has returned to sparklines(): display_values is its result
Scaled == pc \in {"batches", "done"} /\ numbers # <<>>
\* sparklines() has returned lines for a non-empty input
Returned == pc = "done" /\ numbers # <<>>

BatchWidth == IF IsNone(wrap) THEN Len(numbers) ELSE Val(wrap)
NumBatches == (Len(numbers) + BatchWidth - 1) \div BatchWidth
BatchSize(k) == IF k < NumBatches THEN BatchWidth
                ELSE Len(numbers) - (NumBatches - 1) * BatchWidth

\* where the returned list holds row r (1 = top) of the block of batch k
LineOf(k, r) == (k - 1) * (num_lines + 1) + r
\* the character of sample i in row r (1 = top) of its block
CellAt(i, r) ==
    lines[LineOf(((i - 1) \div BatchWidth) + 1, r)][((i - 1) % BatchWidth) + 1]

Clip(x) == Min2(Max2(x, 0), 8)

\* C1 as stated: with a wrap width w, sparklines() returns exactly num_lines
\* rows, each of length n + (ceil(n/w) - 1): the batches joined per row by one
\* blank separator column.
C1_JoinedPerRow ==
    (Returned /\ ~IsNone(wrap)) =>
        /\ Len(lines) = num_lines
        /\ \A r \in 1..Len(lines) : Len(lines[r]) = Len(numbers) + (NumBatches - 1)

\* C1 amended: with a wrap width w, sparklines() returns the ceil(n/w) blocks
\* one after the other in one flat list of ceil(n/w) * num_lines +
\* (ceil(n/w) - 1) strings: each block is num_lines rows as long as its batch
\* (w, the last batch the remainder), consecutive blocks are separated by
\* exactly one empty string, and nothing follows the last block.
C1_BlocksJoinedByEmptyLine ==
    (Returned /\ ~IsNone(wrap)) =>
        /\ Len(lines) = NumBatches * num_lines + (NumBatches - 1)
        /\ \A k \in 1..NumBatches : \A r \in 1..num_lines :
               Len(lines[LineOf(k, r)]) = BatchSize(k)
        /\ \A k \in 1..(NumBatches - 1) : lines[k * (num_lines + 1)] = EmptyStr

\* 8 samples wrapped at 3 in two rows: three blocks, the last one shorter
C1_Witness ==
    /\ Returned /\ wrap = Some(3) /\ Len(numbers) = 8 /\ num_lines = 2
    /\ Len(lines) = 8

\* C2: without a wrap width, sparklines() returns exactly num_lines strings,
\* each as long as the number of samples; and for num_lines = 1, samples that
\* are all present and a range that is not inverted, the call does return.
C2_RowsMatchSamples ==
    /\ (Returned /\ IsNone(wrap)) =>
           /\ Len(lines) = num_lines
           /\ \A r \in 1..Len(lines) : Len(lines[r]) = Len(numbers)
    /\ (/\ pc = "raised" /\ num_lines = 1 /\ numbers # <<>> /\ ~HasNone)
           => EffMin(numbers, minimum) > EffMax(numbers, maximum)

\* eight samples in three rows, and a single row of three samples
C2_Witness ==
    /\ Returned /\ IsNone(wrap) /\ num_lines = 3 /\ Len(numbers) = 8
    /\ Len(lines) = 3 /\ Len(lines[1]) = 8

\* C3 as stated: a missing sample scales to missing, at exactly the missing
\* positions (also when maximum = minimum), and renders as the blank glyph in
\* every row, whatever its neighbours.
C3_MissingStaysMissing ==
    (pc # "call" /\ num_lines >= 1 /\ HasNone /\ HasPresent) =>
        /\ exc # "TypeError"
        /\ Scaled => \A i \in 1..Len(numbers) :
                        IsNone(display_values[i]) <=> IsNone(numbers[i])
        /\ Returned => \A i \in 1..Len(numbers) : \A r \in 1..num_lines :
                          IsNone(numbers[i]) => CellAt(i, r) = Block(0)

\* C4 as stated: every present sample's scaled value is in [0, 9*num_lines - 1].
C4_ScaledInRange ==
    Scaled => \A i \in PresentIdx :
                 /\ ~IsNone(display_values[i])
                 /\ Val(display_values[i]) \in 0..(9 * num_lines - 1)

\* C5 as stated: scaling is monotonic, a <= b gives scaled(a) <= scaled(b), and
\* equal samples get equal scaled values.
C5_Monotonic ==
    Scaled => \A i, j \in PresentIdx :
                 Val(numbers[i]) <= Val(numbers[j])
                     => Val(display_values[i]) <= Val(display_values[j])

\* C6: when the effective maximum equals the effective minimum, every present
\* sample scales to 4 * num_lines and renders as the same column, for
\* num_lines = 1 the glyph at index 4; with all samples present the call returns.
C6_DegenerateMidLevel ==
    (numbers # <<>> /\ HasPresent /\ num_lines >= 1 /\ pc # "call"
        /\ EffMax(numbers, maximum) = EffMin(numbers, minimum)) =>
        /\ Scaled => \A i \in PresentIdx : display_values[i] = Some(4 * num_lines)
        /\ Returned => \A i, j \in PresentIdx : \A r \in 1..num_lines :
                          CellAt(i, r) = CellAt(j, r)
        /\ (Returned /\ num_lines = 1) => \A i \in PresentIdx : CellAt(i, 1) = blocks[5]
        /\ ~HasNone => pc # "raised"

\* a uniform run drawn in two rows
C6_Witness ==
    /\ Returned /\ num_lines = 2 /\ IsNone(minimum) /\ IsNone(maximum)
    /\ numbers = <<Some(1), Some(1)>> /\ display_values = <<Some(8), Some(8)>>

\* the value C7 states for sample x: 1 + 7 * (clamp(x) - minimum) / (maximum -
\* minimum), rounded half to even, 0 replaced by 1
C7_Expected(x, min_, max_) ==
    LET v == Mk((max_ - min_) + 7 * (Max2(Min2(x, max_), min_) - min_), max_ - min_, TRUE)
        r == Round([v EXCEPT !.exact = TRUE], FALSE)
    IN  IF r = 0 THEN 1 ELSE r

\* C7 as stated: for num_lines = 1 and minimum < maximum every present sample
\* scales to the half-to-even rounding of the linear map that sends minimum to 1
\* and maximum to 8.
C7_HalfEvenOfLinearMap ==
    (Scaled /\ num_lines = 1 /\ HasPresent
        /\ EffMin(numbers, minimum) < EffMax(numbers, maximum)) =>
        \A i \in PresentIdx :
            display_values[i] = Some(C7_Expected(Val(numbers[i]),
                                                 EffMin(numbers, minimum),
                                                 EffMax(numbers, maximum)))

\* C8 as stated: row i from the bottom of a column shows blocks[clamp(v - 9*i,
\* 0, 8)], and the first returned string is the topmost row.
C8_RowStride9 ==
    Returned => \A i \in 1..Len(numbers) : \A r \in 1..num_lines :
        CellAt(i, r) = Block(Clip(Val(display_values[i]) - 9 * (num_lines - r)))

\* C8 amended: row i from the bottom of a column shows blocks[clamp(v - 8*i,
\* 0, 8)], and in each block the first string is the topmost row (i =
\* num_lines - 1), the last string the bottom row (i = 0).
C8_RowStride8 ==
    Returned => \A i \in 1..Len(numbers) : \A r \in 1..num_lines :
        CellAt(i, r) = Block(Clip(Val(display_values[i]) - 8 * (num_lines - r)))

\* the docstring's eight samples in two rows, one column reaching the top row
C8_Witness ==
    /\ Returned /\ num_lines = 2 /\ numbers = PiExample /\ IsNone(wrap)
    /\ display_values[6] = Some(16) /\ lines[1][6] = blocks[9] /\ lines[2][1] = blocks[6]

SameNumber(a, b) == a.n = b.n /\ a.d = b.d

\* C9 as stated: in scale_values with num_lines > 1 the remap _rescale(m, m,
\* max_, num_lines * max_, .) is the line through its two points: it sends the
\* lowest first-stage value m to m and max_ to num_lines * max_.
C9_LineThroughTwoPoints ==
    (Scaled /\ num_lines > 1 /\ EffMin(numbers, minimum) < EffMax(numbers, maximum)) =>
        LET min_ == EffMin(numbers, minimum)
            max_ == EffMax(numbers, maximum)
            m == LowestStage1(Clamped(numbers, min_, max_), min_, max_)
            x2 == FromInt(max_)
            y2 == FromInt(num_lines * max_)
        IN  /\ SameNumber(Rescale(m, m, x2, y2, m), m)
            /\ SameNumber(Rescale(m, m, x2, y2, x2), y2)

TwoDistinctValues == \E i, j \in PresentIdx : numbers[i] # numbers[j]

\* C10 as stated: on present samples with at least two distinct values,
\* num_lines >= 1 and no bounds or bounds with minimum <= maximum,
\* scale_values raises nothing and returns as many values as it got samples.
C10_ScaleIsTotal ==
    (/\ pc # "call" /\ num_lines >= 1 /\ ~HasNone /\ TwoDistinctValues
     /\ \/ IsNone(minimum) /\ IsNone(maximum)
        \/ ~IsNone(minimum) /\ ~IsNone(maximum) /\ Val(minimum) <= Val(maximum)) =>
        /\ pc # "raised"
        /\ Len(display_values) = Len(numbers)

====
